---- MODULE Spec2Model ----
(***************************************************************************)
(* Model of the telegram transcribe bot.                                   *)
(*   Part I  : transcribe.js, processFile / transcribePart: one job, its   *)
(*             batches and the remote calls of every segment (Spec).       *)
(*   Part II : the bot's session tables (pendingRequests,                  *)
(*             waitingForTimecodes), the flows that write them and the     *)
(*             periodic sweep (SpecBot, SpecBotFair).                      *)
(* A string is a sequence of chunks; the chunk NL is the character "\n"    *)
(* and every other chunk is a run of characters without a newline.         *)
(***************************************************************************)
EXTENDS Integers, Sequences, FiniteSets, TLC

\* ------------------------------------------------------------- bounds
MaxSegs == 5            \* most segment files the splitter returns
MaxLines == 1           \* most transcript lines of one segment
MaxFaults == 1          \* most remote answers other than the plain success, in a
                        \* job of several segments
MaxPartFaults == 7      \* the same, in a job of one segment
MaxMedia == 2           \* most media messages the bot receives
MaxClicks == 1          \* most clicks on buttons of the prompts
MaxCuts == 2            \* most lines of a timecode message
MaxWords == 2           \* most words of a recognition response
MaxClock == 2           \* the milliseconds the clock is followed over

\* ------------------------------------------------- program constants
BATCH_SIZE == 4
SPLIT_THRESHOLD == 1140
MAX_RETRIES == 5
QUOTA_CODE == 8
REQUEST_TIMEOUT == 15                \* REQUEST_TIMEOUT_MS, in sweep intervals
MAX_SEGMENT_DURATION_SEC == 1140     \* 19 * 60
STAGGER_MS == 2000                   \* sleep(index * 2000)

VARIABLES
    jobPc,            \* position of processFile
    nFiles,           \* filesToProcess.length
    chunkOffsets,     \* chunkOffsets, index 0 .. nFiles-1
    isSplit,
    batchI,           \* the loop variable i of processFile
    fullTranscript,
    seg,              \* per segment: the state of its batch callback / transcribePart
    overtaken,        \* history: a call ended before one of a lower index in its batch
    budget,           \* segs: most part files; faults: the answers other than the
                      \* plain success that the remote side may still give
    customSplitPoints,  \* the parameter of processFile; <<>> is null
    jobDuration,      \* duration of processFile; -1 before getDuration resolves
    partFiles,        \* the part files of the job on disk, as their number
    splitOutcome      \* history: "plain" when the splitter returned the files its
                      \* options ask for, "other" when more or fewer

planVars == <<customSplitPoints, jobDuration, partFiles, splitOutcome>>

jobVars == <<jobPc, nFiles, chunkOffsets, isSplit, batchI, fullTranscript, seg,
             overtaken, budget, planVars>>

VARIABLES
    media,                \* per media message: chat, the position of the flow it started,
                          \* lang, its executeTranscription
    clicks,               \* callback queries handled so far
    pendingRequests,      \* chatId -> request of the language prompt, or NoEntry
    waitingForTimecodes,  \* chatId -> state of the timecode entry, or NoEntry
    files,                \* the temp files on disk
    expired,              \* history: the sessions the sweep removed
    inbox                 \* a timecode message followed from the user to the
                          \* answer of the handler: its lines, the answer sent

botVars == <<media, clicks, pendingRequests, waitingForTimecodes, files, expired,
             inbox>>

VARIABLES
    parse                 \* the word parsing of a response followed over its runs:
                          \* allWords, timeOffset, what every run returned and
                          \* the locals the last run left behind

VARIABLES
    keys                  \* the clock Date.now() reads, and per flow the path of
                          \* its converted audio, the files of its job and the
                          \* calls of transcribePart that are uploading

otherVars == <<botVars, parse, keys>>

vars == <<jobVars, botVars, parse, keys>>

Segs == 0 .. (MaxSegs - 1)

Min(a, b) == IF a < b THEN a ELSE b

\* --------------------------------------------------------------- strings
NL == [kind |-> "nl", seg |-> -1, ts |-> <<0, 0>>]

\* formatTime(secondsString, offsetSeconds): "[MM:SS]" as the pair <<MM, SS>>
formatTime(seconds, offsetSeconds) ==
    LET totalSeconds == seconds + offsetSeconds
    IN  <<totalSeconds \div 60, totalSeconds % 60>>

\* `[Error part: ${formatTime(0, timeOffset)}]`: one chunk, no trailing newline
Placeholder(k, timeOffset) ==
    <<[kind |-> "err", seg |-> k, ts |-> formatTime(0, timeOffset)]>>

\* formattedTranscript of a part whose words make n lines, the j-th starting at
\* second j-1 of the part: every line is `${formatTime(..)} ${line}\n`
RECURSIVE FormattedTranscript(_, _, _)
FormattedTranscript(k, n, timeOffset) ==
    IF n = 0 THEN <<>>
    ELSE FormattedTranscript(k, n - 1, timeOffset)
         \o <<[kind |-> "line", seg |-> k, ts |-> formatTime(n - 1, timeOffset)], NL>>

\* Array.prototype.join('\n')
RECURSIVE Join(_)
Join(strs) ==
    IF Len(strs) = 0 THEN <<>>
    ELSE IF Len(strs) = 1 THEN strs[1]
    ELSE strs[1] \o <<NL>> \o Join(Tail(strs))

\* a timecode line is the sequence of its fields, split(':'); a field is a whole
\* number written in digits, the empty string, or text that is not a number
IntField(n) == [kind |-> "int", val |-> n]
EmptyField == [kind |-> "empty", val |-> 0]
TextField == [kind |-> "text", val |-> 0]

\* isNaN(Number(field)), and Number(field): Number("") is 0
IsNaN(field) == field.kind = "text"
Number(field) == field.val

\* mutant: the fields are read as minutes, seconds and hundredths
parseSecondsShifted(timeString) ==
    Number(timeString[1]) * 60 + Number(timeString[2]) + Number(timeString[3]) \div 100

\* parseSeconds(timeString) of a line with colons
parseSeconds(timeString) ==
    Number(timeString[1]) * 3600 + Number(timeString[2]) * 60 + Number(timeString[3])

\* the line HH:MM:SS of a number of seconds
Line(seconds) ==
    <<IntField(seconds \div 3600), IntField((seconds % 3600) \div 60),
      IntField(seconds % 60)>>

\* --------------------------------------------------------------- segments
\* pc: the await the call is suspended at; delay: the delay of the stagger
\* timer of the callback; retries: the local of the retry loop;
\* code: err.code of the last error batchRecognize raised; blobs: what the call
\* left in the bucket; history: uploads, submits, delIssued, cause
IdleSeg == [pc |-> "idle", delay |-> 0, retries |-> 0, submits |-> 0, uploads |-> 0,
            code |-> 0,
            blobs |-> {}, delIssued |-> {}, cause |-> "none", result |-> <<>>]

\* mutant: the slice takes one file more than the batch size
BatchOfOneMore(i, n) == {k \in Segs : i <= k /\ k < Min(i + BATCH_SIZE + 1, n)}

\* filesToProcess.slice(i, i + BATCH_SIZE), as global indices
BatchOf(i, n) == {k \in Segs : i <= k /\ k < Min(i + BATCH_SIZE, n)}

Batch(i) == BatchOf(i, nFiles)

\* mutant: the first file of the batch waits longest
StaggerDelayReversed(index) == (BATCH_SIZE - index) * STAGGER_MS

\* the argument of sleep(index * 2000), in milliseconds
StaggerDelay(index) == index * STAGGER_MS

\* batch.map(async (file, index) => { await sleep(index * 2000); ... }): every
\* callback of the batch runs up to its stagger delay
LaunchBatch(i, n) ==
    [k \in Segs |-> IF k \in BatchOf(i, n)
                    THEN [IdleSeg EXCEPT !.pc = "stagger", !.delay = StaggerDelay(k - i)]
                    ELSE seg[k]]

\* setTimeout: of two timers that are set in the same tick the one with the
\* shorter delay fires first, and of two with the same delay the one set first
FiresBefore(j, k) ==
    seg[j].delay < seg[k].delay \/ (seg[j].delay = seg[k].delay /\ j < k)

Ended(k) == seg[k].pc \in {"done", "failed", "rejected"}

\* timeOffset = chunkOffsets[globalIndex]; an index past the end reads
\* undefined, and the parameter default (timeOffset = 0) takes its place
TimeOffset(k) == IF k \in DOMAIN chunkOffsets THEN chunkOffsets[k] ELSE 0

JobUnchanged ==
    UNCHANGED <<jobPc, nFiles, chunkOffsets, isSplit, batchI, fullTranscript, planVars,
                otherVars>>

\* the remote side answers with a failure, or with a result without words
Fault == budget.faults > 0 /\ budget' = [budget EXCEPT !.faults = @ - 1]

\* the call of segment k goes on as next
Goes(k, next) == seg' = [seg EXCEPT ![k] = next] /\ UNCHANGED overtaken

\* the call of segment k ends as next: its promise settles
Ends(k, next) ==
    /\ seg' = [seg EXCEPT ![k] = next]
    /\ overtaken' = (overtaken \/ \E j \in Batch(batchI) : j < k /\ ~Ended(j))

\* ---------------------------------------------------- transcribePart steps
\* catch (err) { return `[Error part: ...]` }
CatchReturn(k, why) ==
    [seg[k] EXCEPT !.pc = "failed", !.cause = why,
                   !.result = Placeholder(k, TimeOffset(k))]

\* the stagger timer of the segment fires; transcribePart is called and asks
\* for the project id.  Timers set in one tick with growing delays fire in order.
Wake(k) ==
    /\ seg[k].pc = "stagger"
    /\ \A j \in Batch(batchI) : seg[j].pc = "stagger" => ~FiresBefore(j, k)
    /\ Goes(k, [seg[k] EXCEPT !.pc = "lookup"])
    /\ JobUnchanged /\ UNCHANGED budget

\* getProjectId() resolved: the try block is entered and the upload is issued
LookupOk(k) ==
    /\ seg[k].pc = "lookup"
    /\ Goes(k, [seg[k] EXCEPT !.pc = "upload"])
    /\ JobUnchanged /\ UNCHANGED budget

\* what a rejected getProjectId() makes of the call: line 81 is outside the
\* try block, so transcribePart rejects
LookupError(k) == [seg[k] EXCEPT !.pc = "rejected", !.cause = "lookup"]

\* getProjectId() rejected
LookupFail(k) ==
    /\ seg[k].pc = "lookup"
    /\ Fault
    /\ Ends(k, LookupError(k))
    /\ JobUnchanged

\* upload resolved: the blob is stored, the first batchRecognize is issued
UploadOk(k) ==
    /\ seg[k].pc = "upload"
    /\ Goes(k, [seg[k] EXCEPT !.pc = "submit", !.uploads = @ + 1,
                              !.blobs = @ \cup {"audio"}, !.submits = @ + 1])
    /\ JobUnchanged /\ UNCHANGED budget

\* upload rejected
UploadFail(k) ==
    /\ seg[k].pc = "upload"
    /\ Fault
    /\ Ends(k, CatchReturn(k, "upload"))
    /\ JobUnchanged

\* batchRecognize resolved: operation.promise() is awaited
SubmitOk(k) ==
    /\ seg[k].pc = "submit"
    /\ Goes(k, [seg[k] EXCEPT !.pc = "await"])
    /\ JobUnchanged /\ UNCHANGED budget

\* mutant: the bound of the retry loop off by one
ShouldRetryOffByOne(code, retries) == code = QUOTA_CODE /\ retries <= MAX_RETRIES

\* mutant: a quota error is retried without a bound
ShouldRetryAlways(code, retries) == code = QUOTA_CODE

\* if (err.code === 8 && retries < 5)
ShouldRetry(code, retries) == code = QUOTA_CODE /\ retries < MAX_RETRIES

\* batchRecognize rejected with err.code = code
SubmitErr(k, code) ==
    /\ seg[k].pc = "submit"
    /\ Fault
    /\ IF ShouldRetry(code, seg[k].retries)
       THEN Goes(k, [seg[k] EXCEPT !.pc = "backoff", !.code = code])
       ELSE Ends(k, [CatchReturn(k, IF code = QUOTA_CODE THEN "quota" ELSE "submit")
                        EXCEPT !.code = code])
    /\ JobUnchanged

\* mutant: the retry loop encloses the upload
RetriedFromUpload(k) == [seg[k] EXCEPT !.pc = "upload", !.retries = @ + 1]

\* retries++ and the next pass of while (true): batchRecognize is called again
Retried(k) == [seg[k] EXCEPT !.pc = "submit", !.retries = @ + 1, !.submits = @ + 1]

\* sleep(60000) is over: retries++, the loop submits again
BackoffDone(k) ==
    /\ seg[k].pc = "backoff"
    /\ Goes(k, Retried(k))
    /\ JobUnchanged /\ UNCHANGED budget

\* operation.promise() resolved with a result uri: the result blob exists and
\* its download is issued
AwaitOk(k) ==
    /\ seg[k].pc = "await"
    /\ Goes(k, [seg[k] EXCEPT !.pc = "download", !.blobs = @ \cup {"result"}])
    /\ JobUnchanged /\ UNCHANGED budget

\* operation.promise() rejected, or no result / an error / no uri in the response
AwaitFail(k) ==
    /\ seg[k].pc = "await"
    /\ Fault
    /\ Ends(k, CatchReturn(k, "await"))
    /\ JobUnchanged

\* the deletes of Promise.allSettled([...delete(), ...delete()])
IssueDeletes(k) == {"audio", "result"}

\* download resolved and JSON.parse succeeded: both deletes are issued
DownloadOk(k) ==
    /\ seg[k].pc = "download"
    /\ Goes(k, [seg[k] EXCEPT !.pc = "deleting", !.delIssued = IssueDeletes(k)])
    /\ JobUnchanged /\ UNCHANGED budget

\* download rejected or JSON.parse threw
DownloadFail(k) ==
    /\ seg[k].pc = "download"
    /\ Fault
    /\ Ends(k, CatchReturn(k, "download"))
    /\ JobUnchanged

\* the deletes that succeeded and the number of lines of the result: a failed
\* delete (allSettled swallows it) and a result without words are not the plain
\* success
DeleteOutcome(k, removed, n) ==
    /\ removed \subseteq seg[k].delIssued
    /\ IF removed = seg[k].delIssued /\ n > 0 THEN UNCHANGED budget ELSE Fault

\* mutant: Promise.all in the place of Promise.allSettled, a failed delete
\* is thrown into the catch block
SettledThrows(k, removed, n) ==
    IF removed = seg[k].delIssued
    THEN [seg[k] EXCEPT !.pc = "done", !.blobs = @ \ removed,
                        !.result = FormattedTranscript(k, n, TimeOffset(k))]
    ELSE [CatchReturn(k, "delete") EXCEPT !.blobs = @ \ removed]

\* what the call is after await Promise.allSettled([...]): the outcome of the
\* deletes is not looked at, the transcript of the n lines is returned
Settled(k, removed, n) ==
    [seg[k] EXCEPT !.pc = "done", !.blobs = @ \ removed,
                   !.result = FormattedTranscript(k, n, TimeOffset(k))]

\* Promise.allSettled resolved (removed: the deletes that succeeded); the words
\* are read and formatted into n lines
DeletesSettled(k, removed, n) ==
    /\ seg[k].pc = "deleting"
    /\ DeleteOutcome(k, removed, n)
    /\ Ends(k, Settled(k, removed, n))
    /\ JobUnchanged

\* Promise.allSettled resolved with both blobs deleted, then
\* jsonResponse.results.flatMap(...) threw on a malformed result
ParseFail(k) ==
    /\ seg[k].pc = "deleting"
    /\ Fault
    /\ Ends(k, [CatchReturn(k, "parse") EXCEPT !.blobs = @ \ seg[k].delIssued])
    /\ JobUnchanged

\* ------------------------------------------------------- processFile steps
\* durations ffprobe reports: an empty file, the threshold, twice the
\* threshold, and a second more than each multiple of the threshold
Durations ==
    {0, SPLIT_THRESHOLD, SPLIT_THRESHOLD + 1, 2 * SPLIT_THRESHOLD,
     (MaxSegs - 1) * SPLIT_THRESHOLD + 1}

\* validated split points as the bot forwards them: every 10 minutes
CutLists == {[i \in 1 .. n |-> Line(i * 600)] : n \in {1, MaxSegs - 1}}

PlanUnchanged == UNCHANGED <<nFiles, chunkOffsets, isSplit, batchI, seg, overtaken>>

\* processFile(filename, lang) is called without split points: getDuration
ProcessFile ==
    /\ jobPc = "idle"
    /\ jobPc' = "getDuration"
    /\ PlanUnchanged
    /\ UNCHANGED <<fullTranscript, budget, planVars>>
    /\ UNCHANGED otherVars

\* processFile(filename, lang, customSplitPoints): splitAudio with the points
ProcessFileCustom(points) ==
    /\ jobPc = "idle"
    /\ jobPc' = "split"
    /\ customSplitPoints' = points
    /\ PlanUnchanged
    /\ UNCHANGED <<fullTranscript, budget, jobDuration, partFiles, splitOutcome>>
    /\ UNCHANGED otherVars

\* for (let i = 0; i < filesToProcess.length; i++) chunkOffsets.push(i * SPLIT_THRESHOLD)
AutoOffsets(n) == [k \in 0 .. (n - 1) |-> k * SPLIT_THRESHOLD]

\* mutant: the leading chunkOffsets.push(0) is missing
CustomOffsetsNoZero(points) == [k \in 0 .. (Len(points) - 1) |-> parseSeconds(points[k + 1])]

\* chunkOffsets.push(0); customSplitPoints.forEach((tc) => chunkOffsets.push(parseSeconds(tc)))
CustomOffsets(points) ==
    [k \in 0 .. Len(points) |-> IF k = 0 THEN 0 ELSE parseSeconds(points[k])]

\* the plan is made: the loop starts with i = 0 and launches the first batch
StartLoop(n, offsets, split) ==
    /\ nFiles' = n
    /\ chunkOffsets' = offsets
    /\ isSplit' = split
    /\ batchI' = 0
    /\ jobPc' = "batch"
    /\ seg' = LaunchBatch(0, n)
    /\ UNCHANGED overtaken

\* mutant: a file of exactly the threshold is split
NeedsSplitAtThreshold(d) == d >= SPLIT_THRESHOLD

\* if (duration > SPLIT_THRESHOLD)
NeedsSplit(d) == d > SPLIT_THRESHOLD

\* getDuration resolved with d
GetDurationDone(d) ==
    /\ jobPc = "getDuration"
    /\ jobDuration' = d
    /\ IF NeedsSplit(d)
       THEN /\ jobPc' = "split"
            /\ PlanUnchanged
       ELSE StartLoop(1, <<>> @@ (0 :> 0), FALSE)
    /\ UNCHANGED <<fullTranscript, budget, customSplitPoints, partFiles, splitOutcome>>
    /\ UNCHANGED otherVars

\* mutant: the automatic split asks for segments of twice the threshold
SegmentTimeDoubled == 2 * SPLIT_THRESHOLD

\* splitAudio(filename, SPLIT_THRESHOLD)
SegmentTime == SPLIT_THRESHOLD

\* the files the segment muxer writes: one per split point and one more with
\* -segment_times, and else one per started segment_time of the input
SegmentFiles ==
    IF customSplitPoints # <<>>
    THEN Len(customSplitPoints) + 1
    ELSE (jobDuration + SegmentTime - 1) \div SegmentTime

\* the numbers of files splitAudio may resolve with: what the options ask
\* for, one more or one fewer
SplitCounts == {n \in 1 .. budget.segs : n - SegmentFiles \in {-1, 0, 1}}

\* splitAudio resolved with n part files, the files asked for or, as a fault,
\* more or fewer (what readdir finds under the prefix)
SplitDone(n) ==
    /\ jobPc = "split"
    /\ n \in SplitCounts
    /\ IF n = SegmentFiles
       THEN splitOutcome' = "plain" /\ UNCHANGED budget
       ELSE splitOutcome' = "other" /\ Fault
    /\ partFiles' = n
    /\ StartLoop(n, IF customSplitPoints # <<>> THEN CustomOffsets(customSplitPoints)
                                                ELSE AutoOffsets(n), TRUE)
    /\ UNCHANGED <<fullTranscript, customSplitPoints, jobDuration>>
    /\ UNCHANGED otherVars

\* getDuration or splitAudio rejected: processFile rejects; the splitter may
\* have written part files before it failed
PlanFail(written) ==
    /\ jobPc \in {"getDuration", "split"}
    /\ jobPc' = "rejected"
    /\ partFiles' = IF jobPc = "split" THEN written ELSE partFiles
    /\ PlanUnchanged
    /\ UNCHANGED <<fullTranscript, budget, customSplitPoints, jobDuration, splitOutcome>>
    /\ UNCHANGED otherVars

\* mutant: the results of the batch collected last to first
BatchResultsReversed(i) ==
    [p \in 1 .. Cardinality(Batch(i)) |-> seg[i + Cardinality(Batch(i)) - p].result]

\* batchResults of Promise.all: the results in the order of the batch array
BatchResults(i) ==
    [p \in 1 .. Cardinality(Batch(i)) |-> seg[i + p - 1].result]

\* fullTranscript += batchResults.join('\n')
AppendBatch(transcript, results) == transcript \o Join(results)

\* mutant: the loop goes on as soon as one promise of the batch is fulfilled
BatchAnyFulfilled(i) == \E k \in Batch(i) : seg[k].pc \in {"done", "failed"}

\* await Promise.all(batchPromises) can resume: every promise is fulfilled
BatchFulfilled(i) == \A k \in Batch(i) : seg[k].pc \in {"done", "failed"}

\* Promise.all fulfilled: append, then the next batch or the end of the job
BatchResolved ==
    /\ jobPc = "batch"
    /\ BatchFulfilled(batchI)
    /\ fullTranscript' = AppendBatch(fullTranscript, BatchResults(batchI))
    /\ IF batchI + BATCH_SIZE < nFiles
       THEN /\ batchI' = batchI + BATCH_SIZE
            /\ seg' = LaunchBatch(batchI + BATCH_SIZE, nFiles)
            /\ UNCHANGED overtaken
            /\ UNCHANGED jobPc
            /\ UNCHANGED partFiles
       ELSE \* if (isSplit) filesToProcess.forEach((f) => fs.unlinkSync(f))
            /\ jobPc' = "returned"
            /\ partFiles' = IF isSplit THEN 0 ELSE partFiles
            /\ UNCHANGED <<batchI, seg, overtaken>>
    /\ UNCHANGED <<nFiles, chunkOffsets, isSplit, budget>>
    /\ UNCHANGED <<customSplitPoints, jobDuration, splitOutcome>>
    /\ UNCHANGED otherVars

\* Promise.all rejected (a promise of the batch rejected): processFile rejects
BatchRejected ==
    /\ jobPc = "batch"
    /\ \E k \in Batch(batchI) : seg[k].pc = "rejected"
    /\ jobPc' = "rejected"
    /\ UNCHANGED <<nFiles, chunkOffsets, isSplit, batchI, fullTranscript, seg,
                   overtaken, budget, planVars>>
    /\ UNCHANGED otherVars


\* =================================================================== Part II
Media == 1 .. MaxMedia
Chats == {"chatA"}
FirstChat == "chatA"
Langs == {"uk", "en"}

NoEntry == [media |-> 0, lang |-> "", duration |-> 0, age |-> 0]
\* the local duration of prepareFileForProcessing before getDuration resolved
Unmeasured == -1

\* the argument splitPoints of executeTranscription: null, or the accepted lines
NullPoints == [null |-> TRUE, list |-> <<>>]
SplitPoints(list) == [null |-> FALSE, list |-> list]

\* lang: the parameter of prepareFileForProcessing, while that call runs;
\* duration: what getDuration resolved with; points: the splitPoints of the
\* call of executeTranscription; history: starts, the calls of
\* prepareFileForProcessing for the message, and jobs, those of
\* executeTranscription
NoMedia ==
    [chat |-> "", pc |-> "none", lang |-> "", exec |-> "none",
     duration |-> Unmeasured, points |-> NullPoints, starts |-> 0, jobs |-> 0]

\* what the handler answers: the error (or "ok") and the line quoted in it
Answer(error, tc) == [error |-> error, tc |-> tc]
NoReply == Answer("none", <<>>)

\* no message is followed; a message on its way to the handler; a message the
\* handler has dealt with (duration: state.duration when it was read)
NoMessage == [at |-> "none", timecodes |-> <<>>, duration |-> 0, reply |-> NoReply]
Sent(timecodes) == [NoMessage EXCEPT !.at = "sent", !.timecodes = timecodes]
Handled(message, duration, answer) ==
    [message EXCEPT !.at = "handled", !.duration = duration, !.reply = answer]

\* the converted audio (convertedAudioPath) and the downloaded source
\* (fileInfo.file_path) of the flow of media message m
AudioFile(m) == <<"audio", m>>
SourceFile(m) == <<"source", m>>

\* mutant: the paths are not unlinked
cleanupFilesKeeps(paths) == files

\* cleanupFiles(...paths): unlink every path that exists
cleanupFiles(paths) == files \ paths

\* pendingRequests.set(chatId, {..., timestamp: Date.now()}); a time stamp is
\* kept as the age Date.now() - timestamp, counted in sweep intervals
Request(m) == [media |-> m, lang |-> "", duration |-> 0, age |-> 0]

\* waitingForTimecodes.set(chatId, {filePath, localFilePath, lang, duration, timestamp})
TimecodeState(m, lang, duration) ==
    [media |-> m, lang |-> lang, duration |-> duration, age |-> 0]

\* handleMediaMessage up to its await: the wait state of the chat is dropped,
\* the language prompt is being sent
HandleMediaMessage(m, c) ==
    /\ media[m].pc = "none"
    /\ \A j \in Media : j < m => media[j].pc # "none"
    /\ m = 1 => c = FirstChat
    /\ waitingForTimecodes' = [waitingForTimecodes EXCEPT ![c] = NoEntry]
    /\ media' = [media EXCEPT ![m].chat = c, ![m].pc = "prompting"]
    /\ UNCHANGED <<pendingRequests, files>>
    /\ UNCHANGED <<clicks, expired, inbox, jobVars, parse, keys>>

\* bot.sendMessage(prompt) resolved: pendingRequests.set(chatId, ...)
PromptSent(m) ==
    /\ media[m].pc = "prompting"
    /\ pendingRequests' = [pendingRequests EXCEPT ![media[m].chat] = Request(m)]
    /\ media' = [media EXCEPT ![m].pc = "prompted"]
    /\ UNCHANGED <<waitingForTimecodes, files>>
    /\ UNCHANGED <<clicks, expired, inbox, jobVars, parse, keys>>

\* bot.sendMessage(prompt) rejected: handleMediaMessage rejects
PromptFail(m) ==
    /\ media[m].pc = "prompting"
    /\ media' = [media EXCEPT ![m].pc = "ended"]
    /\ UNCHANGED <<pendingRequests, waitingForTimecodes, files>>
    /\ UNCHANGED <<clicks, expired, inbox, jobVars, parse, keys>>

\* mutant: the request of a language click stays in the map
ChosenKeeps(c) == pendingRequests

\* pendingRequests.delete(chatId) of a language click
Chosen(c) == [pendingRequests EXCEPT ![c] = NoEntry]

\* the callback_query handler for a button of the prompt of media message m
OnCallbackQuery(m, data) ==
    /\ media[m].pc \notin {"none", "prompting"}
    /\ LET c == media[m].chat
           request == pendingRequests[c]
       IN  /\ pendingRequests' =
                 IF data = "cancel" \/ request = NoEntry
                 THEN [pendingRequests EXCEPT ![c] = NoEntry]
                 ELSE Chosen(c)
           /\ IF data # "cancel" /\ request # NoEntry
              THEN \* prepareFileForProcessing(chatId, request, langCode) up to
                   \* its first await
                   media' = [media EXCEPT ![request.media].pc = "download",
                                          ![request.media].lang = data,
                                          ![request.media].starts = @ + 1]
              ELSE UNCHANGED media
    /\ UNCHANGED <<waitingForTimecodes, files>>
    /\ UNCHANGED <<expired, inbox, jobVars, parse, keys>>

\* a click, counted
CallbackQuery(m, data) ==
    /\ clicks < MaxClicks
    /\ clicks' = clicks + 1
    /\ OnCallbackQuery(m, data)

\* a click where clicks are not counted
AnyClick(m, data) ==
    /\ OnCallbackQuery(m, data)
    /\ UNCHANGED clicks

\* sendMessage and getFile resolved: the source is on disk, extractAudio runs
GotFile(m) ==
    /\ media[m].pc = "download"
    /\ files' = files \cup {SourceFile(m)}
    /\ media' = [media EXCEPT ![m].pc = "extract"]
    /\ UNCHANGED <<pendingRequests, waitingForTimecodes>>
    /\ UNCHANGED <<clicks, expired, inbox, jobVars, parse, keys>>

\* extractAudio resolved: the converted audio is on disk, getDuration runs
Extracted(m) ==
    /\ media[m].pc = "extract"
    /\ files' = files \cup {AudioFile(m)}
    /\ media' = [media EXCEPT ![m].pc = "measure"]
    /\ UNCHANGED <<pendingRequests, waitingForTimecodes>>
    /\ UNCHANGED <<clicks, expired, inbox, jobVars, parse, keys>>

\* mutant: a file of exactly the ceiling is too long as well
TooLongAtCeiling(d) == d >= MAX_SEGMENT_DURATION_SEC

\* duration > MAX_SEGMENT_DURATION_SEC
TooLong(d) == d > MAX_SEGMENT_DURATION_SEC

\* getDuration resolved with d: ask for timecodes, or transcribe at once
Measured(m, d) ==
    /\ media[m].pc = "measure"
    /\ IF TooLong(d)
       THEN /\ waitingForTimecodes' =
                  [waitingForTimecodes EXCEPT ![media[m].chat] =
                       TimecodeState(m, media[m].lang, d)]
            /\ media' = [media EXCEPT ![m].pc = "notify", ![m].duration = d]
       ELSE /\ media' = [media EXCEPT ![m].pc = "ended", ![m].lang = "",
                                      ![m].duration = d,
                                      ![m].exec = "running",
                                      ![m].points = NullPoints,
                                      ![m].jobs = @ + 1]
            /\ UNCHANGED waitingForTimecodes
    /\ UNCHANGED <<pendingRequests, files>>
    /\ UNCHANGED <<clicks, expired, inbox, jobVars, parse, keys>>

\* an await of the try block rejected before the branch: catch, cleanupFiles
PrepareFail(m) ==
    /\ media[m].pc \in {"download", "extract", "measure"}
    /\ files' = cleanupFiles({AudioFile(m), SourceFile(m)})
    /\ media' = [media EXCEPT ![m].pc = "ended", ![m].lang = ""]
    /\ UNCHANGED <<pendingRequests, waitingForTimecodes>>
    /\ UNCHANGED <<clicks, expired, inbox, jobVars, parse, keys>>

\* editMessageText (the request for timecodes) resolved
Notified(m) ==
    /\ media[m].pc = "notify"
    /\ media' = [media EXCEPT ![m].pc = "ended", ![m].lang = ""]
    /\ UNCHANGED <<pendingRequests, waitingForTimecodes, files>>
    /\ UNCHANGED <<clicks, expired, inbox, jobVars, parse, keys>>

\* editMessageText rejected: catch, cleanupFiles; the entry stays in the map
NotifyFail(m) ==
    /\ media[m].pc = "notify"
    /\ files' = cleanupFiles({AudioFile(m), SourceFile(m)})
    /\ media' = [media EXCEPT ![m].pc = "ended", ![m].lang = ""]
    /\ UNCHANGED <<pendingRequests, waitingForTimecodes>>
    /\ UNCHANGED <<clicks, expired, inbox, jobVars, parse, keys>>

\* parseTimecode(str): null, or the seconds
Null == [null |-> TRUE, seconds |-> 0]
parseTimecode(str) ==
    IF Len(str) # 3 \/ (\E i \in 1 .. Len(str) : IsNaN(str[i]))
    THEN Null
    ELSE [null |-> FALSE,
          seconds |-> Number(str[1]) * 3600 + Number(str[2]) * 60 + Number(str[3])]

\* a line of one word
BadLine == <<TextField>>

\* mutant: a cut equal to the one before it passes the ordering check
RECURSIVE ValidateFromLax(_, _, _)
ValidateFromLax(timecodes, previousTime, duration) ==
    IF timecodes = <<>>
    THEN IF duration - previousTime > MAX_SEGMENT_DURATION_SEC
         THEN Answer("final", <<>>) ELSE Answer("ok", <<>>)
    ELSE LET tc == Head(timecodes)
             seconds == parseTimecode(tc)
         IN  IF seconds.null THEN Answer("format", tc)
             ELSE IF seconds.seconds < previousTime THEN Answer("order", tc)
             ELSE IF seconds.seconds >= duration THEN Answer("range", tc)
             ELSE IF seconds.seconds - previousTime > MAX_SEGMENT_DURATION_SEC
                  THEN Answer("long", tc)
             ELSE ValidateFromLax(Tail(timecodes), seconds.seconds, duration)

\* mutant: the length of the segment is checked before the range
RECURSIVE ValidateFromLongFirst(_, _, _)
ValidateFromLongFirst(timecodes, previousTime, duration) ==
    IF timecodes = <<>>
    THEN IF duration - previousTime > MAX_SEGMENT_DURATION_SEC
         THEN Answer("final", <<>>) ELSE Answer("ok", <<>>)
    ELSE LET tc == Head(timecodes)
             seconds == parseTimecode(tc)
         IN  IF seconds.null THEN Answer("format", tc)
             ELSE IF seconds.seconds <= previousTime THEN Answer("order", tc)
             ELSE IF seconds.seconds - previousTime > MAX_SEGMENT_DURATION_SEC
                  THEN Answer("long", tc)
             ELSE IF seconds.seconds >= duration THEN Answer("range", tc)
             ELSE ValidateFromLongFirst(Tail(timecodes), seconds.seconds, duration)

\* the validation loop of the message handler and the check of the final
\* segment: the first error, with the line it quotes, or "ok"
RECURSIVE ValidateFrom(_, _, _)
ValidateFrom(timecodes, previousTime, duration) ==
    IF timecodes = <<>>
    THEN IF duration - previousTime > MAX_SEGMENT_DURATION_SEC
         THEN Answer("final", <<>>) ELSE Answer("ok", <<>>)
    ELSE LET tc == Head(timecodes)
             seconds == parseTimecode(tc)
         IN  IF seconds.null THEN Answer("format", tc)
             ELSE IF seconds.seconds <= previousTime THEN Answer("order", tc)
             ELSE IF seconds.seconds >= duration THEN Answer("range", tc)
             ELSE IF seconds.seconds - previousTime > MAX_SEGMENT_DURATION_SEC
                  THEN Answer("long", tc)
             ELSE ValidateFrom(Tail(timecodes), seconds.seconds, duration)

\* the final error quotes timecodes[timecodes.length - 1]
Validate(timecodes, duration) ==
    IF Len(timecodes) = 0 THEN Answer("empty", <<>>)
    ELSE LET answer == ValidateFrom(timecodes, 0, duration)
         IN  IF answer.error = "final"
             THEN Answer("final", timecodes[Len(timecodes)]) ELSE answer

\* mutant: a rejected message drops the entry of the chat
RejectedDrops(c) == [waitingForTimecodes EXCEPT ![c] = NoEntry]

\* return bot.sendMessage(error): the entry of the chat is as it was
Rejected(c) == waitingForTimecodes

\* bot.on('message') with the lines timecodes, for a chat that is waiting: what
\* the handler does to the tables, the files and the flows
\* mutant: the entry of an accepted message stays in the map
AcceptedKeeps(c) == waitingForTimecodes

\* waitingForTimecodes.delete(chatId) of an accepted message
Accepted(c) == [waitingForTimecodes EXCEPT ![c] = NoEntry]

HandleTimecodes(c, timecodes) ==
    /\ waitingForTimecodes[c] # NoEntry
    /\ LET state == waitingForTimecodes[c]
       IN  IF Validate(timecodes, state.duration).error = "ok"
           THEN \* accepted: the entry is deleted, executeTranscription starts
                /\ waitingForTimecodes' = Accepted(c)
                /\ media' = [media EXCEPT ![state.media].exec = "running",
                                          ![state.media].points = SplitPoints(timecodes),
                                          ![state.media].jobs = @ + 1]
           ELSE /\ waitingForTimecodes' = Rejected(c)
                /\ UNCHANGED media
    /\ UNCHANGED <<pendingRequests, files>>
    /\ UNCHANGED <<clicks, expired, jobVars, parse, keys>>

\* a message of the user, handled at once
OnMessage(c, timecodes) ==
    /\ HandleTimecodes(c, timecodes)
    /\ UNCHANGED inbox

\* the user sends the lines timecodes, and the message is followed
UserSends(timecodes) ==
    /\ inbox.at # "sent"
    /\ inbox' = Sent(timecodes)
    /\ UNCHANGED <<media, clicks, pendingRequests, waitingForTimecodes, files, expired>>
    /\ UNCHANGED <<jobVars, parse, keys>>

\* bot.on('message') with the followed message: without an entry for the chat
\* the handler returns at once, and else it answers
TimecodeMessage(c) ==
    /\ inbox.at = "sent"
    /\ IF waitingForTimecodes[c] = NoEntry
       THEN /\ inbox' = Handled(inbox, 0, NoReply)
            /\ UNCHANGED <<media, clicks, pendingRequests, waitingForTimecodes, files,
                           expired>>
            /\ UNCHANGED <<jobVars, parse, keys>>
       ELSE /\ HandleTimecodes(c, inbox.timecodes)
            /\ inbox' = Handled(inbox, waitingForTimecodes[c].duration,
                                Validate(inbox.timecodes, waitingForTimecodes[c].duration))

\* executeTranscription ends, processFile having returned or thrown:
\* finally { cleanupFiles(audioPath, originalSourcePath) }
ExecEnds(m) ==
    /\ media[m].exec = "running"
    /\ files' = cleanupFiles({AudioFile(m), SourceFile(m)})
    /\ media' = [media EXCEPT ![m].exec = "ended"]
    /\ UNCHANGED <<pendingRequests, waitingForTimecodes>>
    /\ UNCHANGED <<clicks, expired, inbox, jobVars, parse, keys>>

\* now - timestamp > REQUEST_TIMEOUT_MS
Expired(entry) == entry # NoEntry /\ entry.age > REQUEST_TIMEOUT

\* one more sweep interval has passed
Older(entry) == IF entry = NoEntry THEN NoEntry ELSE [entry EXCEPT !.age = @ + 1]

\* the setInterval callback, CLEANUP_INTERVAL_MS after the one before
Sweep ==
    LET gonePending == {c \in Chats : Expired(Older(pendingRequests[c]))}
        goneWaiting == {c \in Chats : Expired(Older(waitingForTimecodes[c]))}
    IN  /\ pendingRequests' =
              [c \in Chats |-> IF c \in gonePending
                               THEN NoEntry ELSE Older(pendingRequests[c])]
        /\ waitingForTimecodes' =
              [c \in Chats |-> IF c \in goneWaiting
                               THEN NoEntry ELSE Older(waitingForTimecodes[c])]
        /\ files' = cleanupFiles({AudioFile(waitingForTimecodes[c].media) :
                                    c \in goneWaiting})
        /\ expired' = expired
                        \cup {<<"pending", pendingRequests[c].media>> : c \in gonePending}
                        \cup {<<"waiting", waitingForTimecodes[c].media>> : c \in goneWaiting}
        /\ UNCHANGED <<media, clicks, inbox, jobVars, parse, keys>>

BotDurations == {MAX_SEGMENT_DURATION_SEC, MAX_SEGMENT_DURATION_SEC + 1}

\* messages a user sends while the bot waits for timecodes
TimecodeInputs ==
    {<<>>, <<BadLine>>, <<Line(600)>>, <<Line(MAX_SEGMENT_DURATION_SEC + 1)>>}

\* ------------------------------------------------- transcribePart: parsing
\* a word of the response: word ends with '.', '!' or '?' (ending "."), with a
\* comma (ending ","), or with another character (ending ""); inner: one of
\* '.', '!', '?' stands before its last character; len: word.length;
\* startOffset and endOffset as parseSeconds reads them, in tenths of a second
Word(shape, start, end) ==
    [ending |-> shape.ending, inner |-> shape.inner, len |-> shape.len,
     startOffset |-> start, endOffset |-> end]

\* /[.!?]/.test(w.word), /[.!?]$/.test(word), /[,]$/.test(word)
ContainsPunctuation(w) == w.ending = "." \/ w.inner
isSentenceEnd(word) == word.ending = "."
isComma(word) == word.ending = ","

\* allWords.some((w) => /[.!?]/.test(w.word))
hasPunctuation(allWords) == \E i \in DOMAIN allWords : ContainsPunctuation(allWords[i])

\* mutant: the minutes wrap at 60
formatTimeWrapped(tenths, offsetSeconds) ==
    LET totalSeconds == tenths + 10 * offsetSeconds
    IN  <<(totalSeconds \div 600) % 60, (totalSeconds % 600) \div 10>>

\* formatTime of a number of seconds given in tenths: Math.floor(totalSeconds / 60)
\* and Math.floor(totalSeconds % 60)
formatTimeTenths(tenths, offsetSeconds) ==
    LET totalSeconds == tenths + 10 * offsetSeconds
    IN  <<totalSeconds \div 600, (totalSeconds % 600) \div 10>>

\* currentLineStartTime = null
NoTime == -1

\* let formattedTranscript = ''; let currentLine = ''; let currentLineStartTime = null;
\* let lastWordEndTime = 0; currentLine is kept as the indices of its words, and
\* trace is history: per word, shouldSplitBySilence and whether the line was
\* flushed after it
Locals ==
    [formattedTranscript |-> <<>>, currentLine |-> <<>>, currentLineStartTime |-> NoTime,
     lastWordEndTime |-> 0, trace |-> <<>>]

\* mutant: formattedTranscript lives outside the function and is never reset
DeclaredKeepsTranscript(left) == [Locals EXCEPT !.formattedTranscript = left.formattedTranscript]

\* the locals at the start of a run, whatever an earlier run left behind
Declared(left) == Locals

\* currentLine.length: every word is appended as `${word} `
RECURSIVE Length(_, _)
Length(allWords, line) ==
    IF line = <<>> THEN 0 ELSE allWords[Head(line)].len + 1 + Length(allWords, Tail(line))

\* `${formatTime(currentLineStartTime, timeOffset)} ${currentLine.trim()}\n`
EmittedLine(startTime, timeOffset, line) ==
    [ts |-> formatTimeTenths(startTime, timeOffset), words |-> line]

\* mutant: a gap of exactly the threshold splits the line
SilenceExceededAtThreshold(gap, punctuated) == IF punctuated THEN gap >= 50 ELSE gap >= 10

\* if (hasPunctuation) { if (gap > 5.0) ... } else { if (gap > 1.0) ... }
SilenceExceeded(gap, punctuated) == IF punctuated THEN gap > 50 ELSE gap > 10

\* mutant: the comma flushes a line of more than 100 characters before the word
\* is counted
ShouldFlushBeforeWord(allWords, index, line) ==
    \/ isSentenceEnd(allWords[index])
    \/ isComma(allWords[index])
          /\ Length(allWords, line) - (allWords[index].len + 1) > 100
    \/ Length(allWords, line) > 150
    \/ index = Len(allWords)

\* mutant: no safety break for long lines
ShouldFlushNoCap(allWords, index, line) ==
    \/ isSentenceEnd(allWords[index])
    \/ isComma(allWords[index]) /\ Length(allWords, line) > 100
    \/ index = Len(allWords)

\* if (isSentenceEnd || (isComma && currentLine.length > 100) || isTooLong ||
\*     index === allWords.length - 1)
ShouldFlush(allWords, index, line) ==
    \/ isSentenceEnd(allWords[index])
    \/ isComma(allWords[index]) /\ Length(allWords, line) > 100
    \/ Length(allWords, line) > 150
    \/ index = Len(allWords)

\* mutant: the line is not emptied after it was emitted for silence
AfterSilenceKeeps(split, currentLine) == currentLine

\* currentLine = '' when the line was emitted for silence (line 164)
AfterSilence(split, currentLine) == IF split THEN <<>> ELSE currentLine

\* the callback of allWords.forEach for the word at index (counted from 1)
ForEachWord(st, allWords, index, timeOffset) ==
    LET wordObj == allWords[index]
        gap == wordObj.startOffset - st.lastWordEndTime
        lineStart == IF st.currentLine = <<>> THEN wordObj.startOffset
                                            ELSE st.currentLineStartTime
        shouldSplitBySilence ==
            index > 1 /\ SilenceExceeded(gap, hasPunctuation(allWords))
        split == shouldSplitBySilence /\ Length(allWords, st.currentLine) > 0
        afterSplit ==
            IF split
            THEN st.formattedTranscript
                     \o <<EmittedLine(lineStart, timeOffset, st.currentLine)>>
            ELSE st.formattedTranscript
        line == AfterSilence(split, st.currentLine) \o <<index>>
        start == IF split THEN wordObj.startOffset ELSE lineStart
        flush == ShouldFlush(allWords, index, line)
    IN  [formattedTranscript |->
             IF flush THEN afterSplit \o <<EmittedLine(start, timeOffset, line)>>
                      ELSE afterSplit,
         currentLine |-> IF flush THEN <<>> ELSE line,
         currentLineStartTime |-> IF flush THEN NoTime ELSE start,
         lastWordEndTime |-> wordObj.endOffset,
         trace |-> Append(st.trace, [shouldSplitBySilence |-> shouldSplitBySilence,
                                     flushed |-> flush])]

\* allWords.forEach(...) from the word at index on
RECURSIVE ForEach(_, _, _, _)
ForEach(st, allWords, index, timeOffset) ==
    IF index > Len(allWords) THEN st
    ELSE ForEach(ForEachWord(st, allWords, index, timeOffset), allWords, index + 1,
                 timeOffset)

\* between is history: another response was parsed between the runs
NoParse ==
    [allWords |-> <<>>, timeOffset |-> 0, runs |-> <<>>, left |-> Locals,
     between |-> FALSE]

\* transcribePart parses the followed response once more
SmartParsing ==
    /\ Len(parse.runs) < 2
    /\ LET st == ForEach(Declared(parse.left), parse.allWords, 1, parse.timeOffset)
       IN  parse' = [parse EXCEPT !.runs = Append(@, [formattedTranscript |-> st.formattedTranscript,
                                                      trace |-> st.trace]),
                                  !.left = st]
    /\ UNCHANGED <<jobVars, botVars, keys>>

\* the words of another segment: one sentence of one word
OtherWords == <<Word([ending |-> ".", inner |-> FALSE, len |-> 3], 20, 24)>>

\* transcribePart parses the response of another segment between the runs
OtherParsing ==
    /\ Len(parse.runs) = 1
    /\ ~parse.between
    /\ parse' = [parse EXCEPT !.left = ForEach(Declared(@), OtherWords, 1, 0),
                              !.between = TRUE]
    /\ UNCHANGED <<jobVars, botVars, keys>>

\* ------------------------------------------------------- names and keys
\* flows that are followed from the choice of the audio path to the uploads
KeyFlows == 1 .. 2
MediaTypes == {"voice", "video"}
KeyChats == {"chatA", "chatB"}

\* path.join(VOICE_MESSAGES_DIR, `${request.type}_${chatId}_${Date.now()}_audio.mp3`):
\* a path is its directory and the parts its base name is put together from;
\* part is the number after _part_, -1 when the name has none
convertedAudioPath(type, chatId, now) ==
    [dir |-> "VOICE_MESSAGES_DIR", type |-> type, chat |-> chatId, stamp |-> now,
     part |-> -1]

\* path.join(dir, `${name}_part_%03d${ext}`) for the i-th file ffmpeg writes
PartPath(filePath, i) == [filePath EXCEPT !.part = i]

\* path.parse(filename).base: the name without its directory
Base(filename) ==
    [type |-> filename.type, chat |-> filename.chat, stamp |-> filename.stamp,
     part |-> filename.part]

\* destination: `${GCS_AUDIO_FILES_PREFIX}${base}`
UploadKey(filename) == Base(filename)

NoFlow ==
    [pc |-> "none", audioPath |-> convertedAudioPath("", "", 0),
     filesToProcess |-> <<>>, calls |-> {}]

NoKeys == [now |-> 1, flow |-> [m \in KeyFlows |-> NoFlow]]

\* a millisecond passes
Tick ==
    /\ keys.now < MaxClock
    /\ keys' = [keys EXCEPT !.now = @ + 1]
    /\ UNCHANGED <<jobVars, botVars, parse>>

\* prepareFileForProcessing of flow m got the file and names the converted
\* audio after the type, the chat and Date.now(); extractAudio starts
Convert(m, type, chatId) ==
    /\ keys.flow[m].pc = "none"
    /\ keys' = [keys EXCEPT !.flow[m].pc = "extract",
                            !.flow[m].audioPath =
                                convertedAudioPath(type, chatId, keys.now)]
    /\ UNCHANGED <<jobVars, botVars, parse>>

\* the files of processFile(audioPath, ...): the file itself, or the n parts
\* splitAudio found under its name
FilesOf(audioPath, n) ==
    IF n = 1 THEN <<audioPath>> ELSE [i \in 1 .. n |-> PartPath(audioPath, i - 1)]

\* extractAudio (a run of ffmpeg, longer than a millisecond) and getDuration
\* resolved and processFile of flow m has its n files
StartJob(m, n) ==
    /\ keys.flow[m].pc = "extract"
    /\ keys.now > keys.flow[m].audioPath.stamp
    /\ keys' = [keys EXCEPT !.flow[m].pc = "job",
                            !.flow[m].filesToProcess = FilesOf(keys.flow[m].audioPath, n)]
    /\ UNCHANGED <<jobVars, botVars, parse>>

\* transcribePart of the i-th file of flow m issues its upload
Upload(m, i) ==
    /\ keys.flow[m].pc = "job"
    /\ i \in DOMAIN keys.flow[m].filesToProcess
    /\ i \notin keys.flow[m].calls
    /\ keys' = [keys EXCEPT !.flow[m].calls = @ \cup {i}]
    /\ UNCHANGED <<jobVars, botVars, parse>>

\* that call of transcribePart ends
CallEnds(m, i) ==
    /\ i \in keys.flow[m].calls
    /\ keys' = [keys EXCEPT !.flow[m].calls = @ \ {i}]
    /\ UNCHANGED <<jobVars, botVars, parse>>

\* ------------------------------------------------------------ specification
\* err.code of a rejected batchRecognize: quota exhaustion or something else
ErrorCodes == {QUOTA_CODE, QUOTA_CODE + 5}

\* a part without words, or one whose words make MaxLines lines
LineCounts == {0, MaxLines}

InitJob ==
    /\ jobPc = "idle"
    /\ nFiles = 0
    /\ chunkOffsets = <<>>
    /\ isSplit = FALSE
    /\ batchI = 0
    /\ fullTranscript = <<>>
    /\ seg = [k \in Segs |-> IdleSeg]
    /\ overtaken = FALSE
    /\ budget = [segs |-> MaxSegs, faults |-> MaxFaults]
    /\ customSplitPoints = <<>>
    /\ jobDuration = -1
    /\ partFiles = 0
    /\ splitOutcome = "none"

InitSessions ==
    /\ media = [m \in Media |-> NoMedia]
    /\ clicks = 0
    /\ pendingRequests = [c \in Chats |-> NoEntry]
    /\ waitingForTimecodes = [c \in Chats |-> NoEntry]
    /\ files = {}
    /\ expired = {}
    /\ inbox = NoMessage

InitBot == InitSessions /\ parse = NoParse /\ keys = NoKeys

Init == InitJob /\ InitBot

SegNext ==
    \E k \in Segs :
        \/ Wake(k)
        \/ LookupOk(k)
        \/ LookupFail(k)
        \/ UploadOk(k)
        \/ UploadFail(k)
        \/ SubmitOk(k)
        \/ \E code \in ErrorCodes : SubmitErr(k, code)
        \/ BackoffDone(k)
        \/ AwaitOk(k)
        \/ AwaitFail(k)
        \/ DownloadOk(k)
        \/ DownloadFail(k)
        \/ \E removed \in SUBSET {"audio", "result"}, n \in LineCounts :
              DeletesSettled(k, removed, n)
        \/ ParseFail(k)

JobNext ==
    \/ ProcessFile
    \/ \E points \in CutLists : ProcessFileCustom(points)
    \/ \E d \in Durations : GetDurationDone(d)
    \/ \E n \in 1 .. MaxSegs : SplitDone(n)
    \/ \E written \in {0, 1} : PlanFail(written)
    \/ BatchResolved
    \/ BatchRejected

Next == SegNext \/ JobNext

\* one transcription job of up to MaxSegs segments
Spec == Init /\ [][Next]_vars

\* a job of one segment, the remote side free to fail MaxPartFaults times
InitPart ==
    /\ jobPc = "idle"
    /\ nFiles = 0
    /\ chunkOffsets = <<>>
    /\ isSplit = FALSE
    /\ batchI = 0
    /\ fullTranscript = <<>>
    /\ seg = [k \in Segs |-> IdleSeg]
    /\ overtaken = FALSE
    /\ budget = [segs |-> 1, faults |-> MaxPartFaults]
    /\ customSplitPoints = <<>>
    /\ jobDuration = -1
    /\ partFiles = 0
    /\ splitOutcome = "none"
    /\ InitBot

SpecPart == InitPart /\ [][Next]_vars

\* the same job when every remote call and every timer eventually settles
SpecPartFair == InitPart /\ [][Next]_vars /\ WF_vars(SegNext) /\ WF_vars(JobNext)

\* the steps of the bot when its keyboard offers the languages langs
BotStep(langs) ==
    \/ \E m \in Media, c \in Chats : HandleMediaMessage(m, c)
    \/ \E m \in Media : PromptSent(m)
    \/ \E m \in Media : PromptFail(m)
    \/ \E m \in Media, data \in {"cancel"} \cup langs : CallbackQuery(m, data)
    \/ \E m \in Media : GotFile(m)
    \/ \E m \in Media : Extracted(m)
    \/ \E m \in Media, d \in BotDurations : Measured(m, d)
    \/ \E m \in Media : PrepareFail(m)
    \/ \E m \in Media : Notified(m)
    \/ \E m \in Media : NotifyFail(m)
    \/ \E c \in Chats, tcs \in TimecodeInputs : OnMessage(c, tcs)
    \/ \E m \in Media : ExecEnds(m)
    \/ Sweep

BotNext == BotStep(Langs)

\* the bot: media messages, clicks, timecode messages, the flows they start and
\* the periodic sweep
SpecBot == Init /\ [][BotNext]_vars

\* the bot with one language on its keyboard
FirstLang == "en"
BotNextOneLang == BotStep({FirstLang})

\* the interval timer of the sweep keeps firing
SpecBotFair == Init /\ [][BotNextOneLang]_vars /\ WF_vars(Sweep)

\* the lines a user may write: HH:MM:SS of some seconds, a word, a line with an
\* empty field ("0::600") and a line of two fields ("10:0")
TimecodeLines ==
    {Line(0), Line(600), Line(MAX_SEGMENT_DURATION_SEC),
     Line(MAX_SEGMENT_DURATION_SEC + 1), Line(2 * MAX_SEGMENT_DURATION_SEC),
     BadLine, <<IntField(0), EmptyField, IntField(600)>>,
     <<IntField(10), IntField(0)>>}

\* the timecode messages of up to MaxCuts non-empty lines
TimecodeMessages == UNION {[1 .. n -> TimecodeLines] : n \in 0 .. MaxCuts}

\* durations of a file the bot asks timecodes for
WaitDurations ==
    {MAX_SEGMENT_DURATION_SEC + 1, 2 * MAX_SEGMENT_DURATION_SEC,
     2 * MAX_SEGMENT_DURATION_SEC + 1}

\* a chat whose first media message was prepared, found longer than the
\* ceiling, and is awaiting timecodes, the entry just made or about to expire
InitWaiting ==
    /\ InitJob
    /\ clicks = 1
    /\ pendingRequests = [c \in Chats |-> NoEntry]
    /\ \E lang \in Langs, d \in WaitDurations, age \in {0, REQUEST_TIMEOUT} :
          /\ media = [m \in Media |->
                         IF m = 1 THEN [NoMedia EXCEPT !.chat = FirstChat,
                                                       !.pc = "ended",
                                                       !.duration = d,
                                                       !.starts = 1]
                                  ELSE NoMedia]
          /\ waitingForTimecodes =
                 [c \in Chats |-> [TimecodeState(1, lang, d) EXCEPT !.age = age]]
    /\ files = {AudioFile(1), SourceFile(1)}
    /\ expired = {}
    /\ inbox = NoMessage
    /\ parse = NoParse
    /\ keys = NoKeys

\* the chat has no entry any more and gets none here: a message after an
\* ignored one meets the handler as the ignored one did, so the next message
\* is followed only while the last one was answered
Answered == inbox.at = "handled" => inbox.reply # NoReply

TimecodesNext ==
    \/ Answered /\ \E timecodes \in TimecodeMessages : UserSends(timecodes)
    \/ \E c \in Chats : TimecodeMessage(c)
    \/ \E m \in Media : ExecEnds(m)

\* the negotiation of timecodes: messages of the user, the handler and the job
\* the accepted message starts
SpecTimecodes == InitWaiting /\ [][TimecodesNext]_vars

\* the first media message of a chat was prepared, found no longer than the
\* ceiling and dispatched: its executeTranscription runs, no map holds it; clicks counts the clicks from
\* here on
InitRunning ==
    /\ InitJob
    /\ media = [m \in Media |-> IF m = 1 THEN [NoMedia EXCEPT !.chat = FirstChat,
                                                              !.pc = "ended",
                                                              !.duration =
                                                                  MAX_SEGMENT_DURATION_SEC,
                                                              !.exec = "running",
                                                              !.starts = 1,
                                                              !.jobs = 1]
                                         ELSE NoMedia]
    /\ clicks = 0
    /\ pendingRequests = [c \in Chats |-> NoEntry]
    /\ waitingForTimecodes = [c \in Chats |-> NoEntry]
    /\ files = {AudioFile(1), SourceFile(1)}
    /\ expired = {}
    /\ inbox = NoMessage
    /\ parse = NoParse
    /\ keys = NoKeys

\* the bot while a dispatched job runs
SpecDispatched == InitRunning /\ [][BotNext]_vars

\* the words a response is made of: short words that are plain, end a sentence
\* or hold a '.' inside, and long ones around the lengths 100 and 150
WordShapes ==
    {[ending |-> e, inner |-> FALSE, len |-> 3] : e \in {"", "."}}
        \cup {[ending |-> "", inner |-> TRUE, len |-> 3]}
        \cup {[ending |-> ",", inner |-> FALSE, len |-> n] : n \in {99, 100}}
        \cup {[ending |-> "", inner |-> FALSE, len |-> n] : n \in {149, 150}}

\* the silence before a word, around 1.0 s and 5.0 s, and the length of a
\* word, in tenths of a second
WordGaps == {10, 11, 50, 51}
WordTime == 4

\* the start of the i-th word after the silences gaps
RECURSIVE StartOf(_, _)
StartOf(gaps, i) ==
    IF i = 1 THEN gaps[1] ELSE StartOf(gaps, i - 1) + WordTime + gaps[i]

Responses ==
    UNION {{[i \in 1 .. n |-> Word(shapes[i], StartOf(gaps, i), StartOf(gaps, i) + WordTime)] :
                shapes \in [1 .. n -> WordShapes], gaps \in [1 .. n -> WordGaps]} :
           n \in 0 .. MaxWords}

\* the offsets of the second segment and of the fifth (76 minutes)
WordOffsets == {SPLIT_THRESHOLD, 4 * SPLIT_THRESHOLD}

InitWords ==
    /\ InitJob
    /\ InitSessions
    /\ keys = NoKeys
    /\ \E allWords \in Responses, timeOffset \in WordOffsets :
          parse = [NoParse EXCEPT !.allWords = allWords, !.timeOffset = timeOffset]

WordsNext == SmartParsing \/ OtherParsing

\* a response parsed twice with the same offset, another response in between
SpecWords == InitWords /\ [][WordsNext]_vars

\* the bot when the user clicks and writes as often as they like: every button
\* of every prompt any number of times, without the sweep
RepeatNext ==
    \/ \E m \in Media, c \in Chats : HandleMediaMessage(m, c)
    \/ \E m \in Media : PromptSent(m)
    \/ \E m \in Media : PromptFail(m)
    \/ \E m \in Media, data \in {"cancel", FirstLang} : AnyClick(m, data)
    \/ \E m \in Media : GotFile(m)
    \/ \E m \in Media : Extracted(m)
    \/ \E m \in Media, d \in BotDurations : Measured(m, d)
    \/ \E m \in Media : PrepareFail(m)
    \/ \E m \in Media : Notified(m)
    \/ \E m \in Media : NotifyFail(m)
    \/ \E c \in Chats, tcs \in TimecodeInputs : OnMessage(c, tcs)
    \/ \E m \in Media : ExecEnds(m)

SpecRepeat == Init /\ [][RepeatNext]_vars

\* numbers of files of a job: the file itself, or two parts
FileCounts == {1, 2}

KeysNext ==
    \/ Tick
    \/ \E m \in KeyFlows, type \in MediaTypes, chatId \in KeyChats : Convert(m, type, chatId)
    \/ \E m \in KeyFlows, n \in FileCounts : StartJob(m, n)
    \/ \E m \in KeyFlows, i \in 1 .. 2 : Upload(m, i)
    \/ \E m \in KeyFlows, i \in 1 .. 2 : CallEnds(m, i)

\* two flows from the naming of their audio to the uploads of their jobs
SpecKeys == Init /\ [][KeysNext]_vars

\* ------------------------------------------------------------------ claims
\* the chunks of a string that are not newlines
Chunks(str) == SelectSeq(str, LAMBDA c : c.kind # "nl")

\* String.prototype.split('\n'): the lines of a string
RECURSIVE SplitLines(_)
SplitLines(str) ==
    IF str = <<>> THEN << <<>> >>
    ELSE LET rest == SplitLines(Tail(str))
         IN  IF Head(str) = NL THEN << <<>> >> \o rest
             ELSE << <<Head(str)>> \o Head(rest) >> \o Tail(rest)

\* the results of the segments 0 .. n-1, one after the other
RECURSIVE InSegmentOrder(_)
InSegmentOrder(n) ==
    IF n = 0 THEN <<>> ELSE InSegmentOrder(n - 1) \o Chunks(seg[n - 1].result)

\* C1 (as claimed): a failed remote call of a segment never makes processFile
\* fail as a whole: whenever processFile has rejected, no call of a segment has
\* failed (the rejection came from getDuration or from the splitter).
C1_NoJobFailureFromSegment ==
    jobPc = "rejected" => \A k \in Segs : seg[k].cause = "none"

\* C2: when processFile returns, the transcript holds the contributions of the
\* segments in segment order, whatever the order in which the calls of a batch
\* ended, within a batch and across batches; and at every moment the
\* contributions appended so far are in segment order.
C2_SegmentOrder ==
    /\ \A p, q \in DOMAIN Chunks(fullTranscript) :
          p < q => Chunks(fullTranscript)[p].seg <= Chunks(fullTranscript)[q].seg
    /\ jobPc = "returned" => Chunks(fullTranscript) = InSegmentOrder(nFiles)

\* a job of two batches has returned, a call having ended before a call of a
\* lower index of its batch, with content from both batches in the transcript
C2_Witness ==
    /\ jobPc = "returned"
    /\ overtaken
    /\ nFiles > BATCH_SIZE
    /\ \E p, q \in DOMAIN fullTranscript :
          /\ fullTranscript[p].seg >= 0 /\ fullTranscript[p].seg < BATCH_SIZE
          /\ fullTranscript[q].seg >= BATCH_SIZE

\* C3: no segment of a later batch has started, not even its stagger delay,
\* before every segment of the batches before it has resolved with a transcript
\* or with a placeholder.
C3_BatchBarrier ==
    \A k \in Segs :
        seg[k].pc # "idle" =>
            \A j \in Segs :
                j < (k \div BATCH_SIZE) * BATCH_SIZE => seg[j].pc \in {"done", "failed"}

\* a segment of the second batch is in its stagger delay
C3_Witness ==
    \E k \in Segs : k >= BATCH_SIZE /\ seg[k].pc = "stagger"

\* C4 (as claimed): no segment is submitted more than 5 times.
C4_AtMostFiveSubmissions ==
    \A k \in Segs : seg[k].submits <= 5

\* C4 (amended): a segment is submitted at most 6 times, once and then once per
\* retry (retries < 5); a segment that ended on quota exhaustion was submitted
\* exactly 6 times, every one failing with code 8, and is a placeholder.
C4_AtMostSixSubmissions ==
    \A k \in Segs :
        /\ seg[k].submits <= MAX_RETRIES + 1
        /\ seg[k].submits <= seg[k].retries + 1
        /\ seg[k].cause = "quota" =>
              /\ seg[k].submits = MAX_RETRIES + 1
              /\ seg[k].code = QUOTA_CODE
              /\ seg[k].pc = "failed"
              /\ seg[k].result = Placeholder(k, TimeOffset(k))

\* a segment has ended on quota exhaustion
C4_Witness ==
    \E k \in Segs : seg[k].cause = "quota" /\ seg[k].pc = "failed"

\* C5 (as claimed): a segment is submitted again only after a submission that
\* failed with code 8, and every other error of any step makes the segment
\* terminal (a placeholder) at once.
C5_OnlyQuotaRetried ==
    [][\A k \in Segs :
          /\ (seg[k].submits > 0 /\ seg'[k].submits > seg[k].submits) =>
                (seg[k].pc = "backoff" /\ seg[k].code = QUOTA_CODE)
          /\ (seg[k].pc = "submit" /\ seg'[k].pc = "backoff") =>
                seg'[k].code = QUOTA_CODE
          /\ (seg[k].cause = "none" /\ seg'[k].cause # "none") =>
                (seg'[k].pc = "failed" /\ seg'[k].submits = seg[k].submits)]_vars

\* C6 (as claimed): in the returned transcript a failed segment has exactly one
\* line with its placeholder, and that line is the placeholder alone, with the
\* segment's offset.
C6_PlaceholderOnOwnLine ==
    jobPc = "returned" =>
        \A k \in {j \in Segs : j < nFiles} :
            seg[k].pc = "failed" =>
                LET lines == SplitLines(fullTranscript)
                    mine  == {p \in DOMAIN lines :
                                \E q \in DOMAIN lines[p] :
                                    lines[p][q].kind = "err" /\ lines[p][q].seg = k}
                IN  /\ Cardinality(mine) = 1
                    /\ \A p \in mine : lines[p] = Placeholder(k, TimeOffset(k))

\* C7 (as claimed): when the call of a segment whose upload succeeded has ended,
\* a delete was issued for the audio blob and for every blob the call left in
\* the bucket, and a failed segment leaves no blob.
C7_BlobsDeleted ==
    \A k \in Segs :
        (Ended(k) /\ seg[k].uploads > 0) =>
            /\ "audio" \in seg[k].delIssued
            /\ seg[k].blobs \subseteq seg[k].delIssued
            /\ seg[k].pc = "failed" => seg[k].blobs = {}

\* C8 (as claimed): a conversation never has a pending language choice and a
\* pending timecode entry at the same time.
C8_OneSessionPerChat ==
    \A c \in Chats : ~(pendingRequests[c] # NoEntry /\ waitingForTimecodes[c] # NoEntry)

\* C9 (as claimed): when a media submission discards the timecode session of
\* its conversation, the audio file of that session is gone afterwards or a
\* flow remains that deletes it (its executeTranscription).
C9_DiscardedSessionFileDeleted ==
    [][\A c \in Chats :
          ( /\ \E m \in Media : media[m].pc = "none" /\ media'[m].pc = "prompting"
            /\ waitingForTimecodes[c] # NoEntry
            /\ waitingForTimecodes'[c] = NoEntry )
          => \/ AudioFile(waitingForTimecodes[c].media) \notin files'
             \/ media'[waitingForTimecodes[c].media].exec = "running"]_vars

\* C10: every session, awaiting the language choice or awaiting timecodes, is
\* eventually resolved or removed (an occupied entry of either map is
\* eventually empty); the sweep removes a session exactly when its
\* age exceeds the timeout, so that no older session is left after a sweep; and
\* when the sweep has removed a session awaiting timecodes, the audio file of
\* that session is not on disk.
C10_SessionsExpire ==
    /\ \A c \in Chats :
          /\ (pendingRequests[c] # NoEntry) ~> (pendingRequests[c] = NoEntry)
          /\ (waitingForTimecodes[c] # NoEntry) ~> (waitingForTimecodes[c] = NoEntry)
    /\ [](\A c \in Chats : /\ pendingRequests[c].age <= REQUEST_TIMEOUT
                           /\ waitingForTimecodes[c].age <= REQUEST_TIMEOUT)
    /\ [][Sweep =>
            \A c \in Chats :
               /\ (pendingRequests[c] # NoEntry /\ pendingRequests'[c] = NoEntry)
                     <=> pendingRequests[c].age + 1 > REQUEST_TIMEOUT
               /\ (waitingForTimecodes[c] # NoEntry /\ waitingForTimecodes'[c] = NoEntry)
                     <=> waitingForTimecodes[c].age + 1 > REQUEST_TIMEOUT
               /\ (waitingForTimecodes[c] # NoEntry /\ waitingForTimecodes'[c] = NoEntry)
                     => AudioFile(waitingForTimecodes[c].media) \notin files']_vars

\* the sweep has removed a session awaiting the language choice and a session
\* awaiting timecodes, and the audio file of the latter is not on disk
C10_Witness ==
    /\ \E m \in Media : <<"pending", m>> \in expired
    /\ \E m \in Media : <<"waiting", m>> \in expired /\ AudioFile(m) \notin files

\* a line that can be read as seconds, and the seconds it reads as
Readable(line) == Len(line) = 3 /\ \A i \in 1 .. 3 : line[i].kind # "text"
AsSeconds(line) ==
    IF Readable(line) THEN line[1].val * 3600 + line[2].val * 60 + line[3].val ELSE 0

\* the cut before line i of a message: 0 before the first
CutBefore(tcs, i) == IF i = 1 THEN 0 ELSE AsSeconds(tcs[i - 1])

\* the conditions of acceptance of a message tcs for a file of d seconds
Acceptable(tcs, d) ==
    /\ \A i \in 1 .. Len(tcs) :
          /\ Readable(tcs[i])
          /\ AsSeconds(tcs[i]) > CutBefore(tcs, i)
          /\ AsSeconds(tcs[i]) < d
          /\ AsSeconds(tcs[i]) - CutBefore(tcs, i) <= MAX_SEGMENT_DURATION_SEC
    /\ d - CutBefore(tcs, Len(tcs) + 1) <= MAX_SEGMENT_DURATION_SEC

\* the handler answers the followed message of a chat that is waiting
Answers(c) == TimecodeMessage(c) /\ waitingForTimecodes[c] # NoEntry

\* C11: a timecode message is accepted, the entry of the chat deleted and the
\* transcription started, if and only if its lines read as seconds are strictly
\* increasing from above 0, all below the duration, no gap between cuts (the
\* first from 0) above the maximum and the gap from the last cut to the end
\* not above the maximum.
C11_AcceptedIffValid ==
    [][\A c \in Chats :
          Answers(c) =>
              LET state == waitingForTimecodes[c]
              IN  /\ (inbox'.reply.error = "ok")
                        <=> Acceptable(inbox.timecodes, state.duration)
                  /\ (inbox'.reply.error = "ok")
                        <=> /\ waitingForTimecodes'[c] = NoEntry
                            /\ media[state.media].exec # "running"
                            /\ media'[state.media].exec = "running"]_vars

\* a message of two cuts was accepted and the transcription is running
C11_Witness ==
    /\ inbox.at = "handled"
    /\ inbox.reply.error = "ok"
    /\ Len(inbox.timecodes) >= 2
    /\ \E m \in Media : media[m].exec = "running"

\* C12: a rejected timecode message (empty, format, order, range, segment too
\* long, final gap) leaves the entry of the chat as it was, with its file,
\* language, duration and time stamp, deletes no file and starts no job.
C12_RejectionKeepsSession ==
    [][\A c \in Chats :
          (Answers(c) /\ inbox'.reply.error # "ok") =>
              /\ inbox'.reply.error \in {"empty", "format", "order", "range", "long", "final"}
              /\ waitingForTimecodes'[c] = waitingForTimecodes[c]
              /\ waitingForTimecodes'[c] # NoEntry
              /\ UNCHANGED <<pendingRequests, files, media>>]_vars

\* a message was rejected for its final gap; the session and its files are there
C12_Witness ==
    /\ inbox.at = "handled"
    /\ inbox.reply.error = "final"
    /\ \E c \in Chats :
          /\ waitingForTimecodes[c] # NoEntry
          /\ waitingForTimecodes[c].age = REQUEST_TIMEOUT
          /\ AudioFile(waitingForTimecodes[c].media) \in files

\* three fields, each a whole number written in digits
WellFormed(line) == Len(line) = 3 /\ \A i \in 1 .. 3 : line[i].kind = "int"

\* C13 (as claimed): every line of an accepted message has exactly three fields,
\* each an integer, and the line quoted by a format error is not of that form.
C13_FormatIsThreeIntegers ==
    inbox.at = "handled" =>
        /\ inbox.reply.error = "ok" =>
              \A i \in 1 .. Len(inbox.timecodes) : WellFormed(inbox.timecodes[i])
        /\ inbox.reply.error = "format" => ~WellFormed(inbox.reply.tc)

\* the checks of a line, in the order they are made
Checks == <<"format", "order", "range", "long">>

\* line i of tcs fails the check, for a file of d seconds
Fails(check, tcs, i, d) ==
    CASE check = "format" -> ~Readable(tcs[i])
      [] check = "order" -> AsSeconds(tcs[i]) <= CutBefore(tcs, i)
      [] check = "range" -> AsSeconds(tcs[i]) >= d
      [] check = "long" -> AsSeconds(tcs[i]) - CutBefore(tcs, i) > MAX_SEGMENT_DURATION_SEC

\* C14: the answer to a message with a violating line quotes the first such
\* line and names the first check that line fails, in the order format, order,
\* range, segment too long; the final gap is reported only when no line
\* violates, and then exactly when it is above the maximum.
C14_FirstViolationReported ==
    (inbox.at = "handled" /\ inbox.reply.error \notin {"none", "empty"}) =>
        LET tcs == inbox.timecodes
            d == inbox.duration
            bad == {i \in 1 .. Len(tcs) : \E k \in 1 .. 4 : Fails(Checks[k], tcs, i, d)}
        IN  IF bad # {}
            THEN LET i == CHOOSE x \in bad : \A y \in bad : x <= y
                     failed == {k \in 1 .. 4 : Fails(Checks[k], tcs, i, d)}
                     k == CHOOSE x \in failed : \A y \in failed : x <= y
                 IN  inbox.reply = Answer(Checks[k], tcs[i])
            ELSE /\ inbox.reply.error \in {"final", "ok"}
                 /\ inbox.reply.error = "final"
                       <=> d - CutBefore(tcs, Len(tcs) + 1) > MAX_SEGMENT_DURATION_SEC
                 /\ inbox.reply.error = "final" => inbox.reply.tc = tcs[Len(tcs)]

\* the second line of a message was reported, for the length of its segment
C14_Witness ==
    /\ inbox.at = "handled"
    /\ inbox.reply.error = "long"
    /\ Len(inbox.timecodes) >= 2
    /\ inbox.reply.tc = inbox.timecodes[2]
    /\ inbox.reply.tc # inbox.timecodes[1]

\* the result of segment k carries the stamps of the seconds offset, offset + 1,
\* ... as [MM:SS], the placeholder the stamp of offset
StampedFrom(k, offset) ==
    \A p \in DOMAIN Chunks(seg[k].result) :
        Chunks(seg[k].result)[p].ts = <<(offset + p - 1) \div 60, (offset + p - 1) % 60>>

Planned == jobPc \in {"batch", "returned"} \/ (jobPc = "rejected" /\ nFiles > 0)

\* C15: a job without split points whose measured duration is at most 1140 s
\* is planned as one segment, the original file, with offset 0, and the
\* splitter is never invoked for it.
C15_ShortFileOneSegment ==
    (customSplitPoints = <<>> /\ jobDuration >= 0 /\ jobDuration <= 1140) =>
        /\ Planned
        /\ nFiles = 1
        /\ ~isSplit
        /\ splitOutcome = "none" /\ partFiles = 0
        /\ DOMAIN chunkOffsets = {0} /\ chunkOffsets[0] = 0
        /\ StampedFrom(0, 0)

\* a job of exactly 1140 s has returned a transcript
C15_Witness ==
    /\ jobPc = "returned"
    /\ customSplitPoints = <<>>
    /\ jobDuration = 1140
    /\ seg[0].pc = "done" /\ Chunks(fullTranscript) # <<>>

\* the least n with n * 1140 >= d
CeilOf1140(d) == CHOOSE n \in 0 .. (d + 1) : n * 1140 >= d /\ (n - 1) * 1140 < d

CutSeconds(tc) == tc[1].val * 3600 + tc[2].val * 60 + tc[3].val

C18_BadDurationFailsPlan ==
    (customSplitPoints = <<>> /\ jobDuration >= 0 /\ jobDuration <= 0) =>
        /\ jobPc # "returned"
        /\ \A k \in Segs : seg[k].uploads = 0 /\ seg[k].submits = 0

\* C19 (as claimed): when the splitter returned a number of files other than
\* the number of offsets of the plan, no segment is transcribed and processFile
\* returns no transcript.
C19_FileCountMismatchFailsJob ==
    nFiles # Cardinality(DOMAIN chunkOffsets) =>
        /\ jobPc # "returned"
        /\ \A k \in Segs : seg[k].uploads = 0 /\ seg[k].submits = 0

\* C20 (as claimed): after the splitter failed, nothing was uploaded and no
\* part file of the job is left on disk.
C20_SplitFailureLeavesNoPart ==
    (jobPc = "rejected" /\ nFiles = 0) =>
        /\ \A k \in Segs : seg[k].uploads = 0 /\ seg[k].submits = 0
        /\ partFiles = 0

\* the lines a run of the parsing returned
LinesOf(r) == parse.runs[r].formattedTranscript

\* C21: the timestamp of every emitted line is [MM:SS] of the offset of the
\* segment plus the start of the first word of the line, whole seconds rounded
\* down and minutes not wrapped at 60; offset 1140 and start 5.0 give [19:05].
C21_LineTimestamp ==
    \A r \in DOMAIN parse.runs :
        \A l \in DOMAIN LinesOf(r) :
            LET line == LinesOf(r)[l]
                total == 10 * parse.timeOffset + parse.allWords[line.words[1]].startOffset
                shown == 60 * line.ts[1] + line.ts[2]
            IN  /\ line.words # <<>>
                /\ line.ts[2] \in 0 .. 59
                /\ 10 * shown <= total /\ total < 10 * (shown + 1)
                /\ (parse.timeOffset = 1140 /\ parse.allWords[line.words[1]].startOffset = 50)
                       => line.ts = <<19, 5>>

\* a line of the second segment that starts at 5.0 s was emitted as [19:05],
\* and a later one that starts within a second, not on it
C21_Witness ==
    /\ parse.timeOffset = 1140
    /\ Len(parse.runs) >= 1
    /\ Len(LinesOf(1)) = 2
    /\ parse.allWords[LinesOf(1)[1].words[1]].startOffset = 50
    /\ LinesOf(1)[1].ts = <<19, 5>>
    /\ parse.allWords[LinesOf(1)[2].words[1]].startOffset % 10 # 0

\* the seconds a stamp [MM:SS] shows
Shown(ts) == 60 * ts[1] + ts[2]

\* C22 (as claimed): the stamps of the lines and placeholders of the transcript,
\* read in output order, never decrease (in every job of the model the lines
\* of a segment start in order and before the next offset).
C22_StampsNeverDecrease ==
    \A p, q \in DOMAIN Chunks(fullTranscript) :
        p < q => Shown(Chunks(fullTranscript)[p].ts) <= Shown(Chunks(fullTranscript)[q].ts)

Punctuated == \E i \in DOMAIN parse.allWords :
                  parse.allWords[i].ending = "." \/ parse.allWords[i].inner

\* the silence before the i-th word is longer than 5.0 s in a punctuated
\* response, than 1.0 s in one without punctuation
LongSilence(i) ==
    parse.allWords[i].startOffset - parse.allWords[i - 1].endOffset
        > (IF Punctuated THEN 50 ELSE 10)

\* the i-th word opens a line of run r
OpensLine(r, i) == \E l \in DOMAIN LinesOf(r) : LinesOf(r)[l].words[1] = i

\* C24: before a word other than the first, silence forces a line break exactly
\* when the gap to the end of the word before exceeds 5.0 s in a response with
\* '.', '!' or '?' in some word, 1.0 s in a response without: then the word
\* opens a line, and else it opens one only if the line was flushed after the
\* word before.
C24_SilenceBreak ==
    \A r \in DOMAIN parse.runs :
        /\ Len(parse.runs[r].trace) = Len(parse.allWords)
        /\ \A i \in DOMAIN parse.allWords :
              IF i = 1
              THEN ~parse.runs[r].trace[i].shouldSplitBySilence
              ELSE /\ parse.runs[r].trace[i].shouldSplitBySilence <=> LongSilence(i)
                   /\ LongSilence(i) => OpensLine(r, i)
                   /\ OpensLine(r, i) =>
                          LongSilence(i) \/ parse.runs[r].trace[i - 1].flushed

\* in a response with punctuation a silence of 5.1 s broke a line that was
\* not flushed
C24_Witness ==
    /\ Len(parse.runs) >= 1
    /\ Len(parse.allWords) = 2
    /\ Punctuated
    /\ parse.allWords[2].startOffset - parse.allWords[1].endOffset = 51
    /\ ~parse.runs[1].trace[1].flushed
    /\ OpensLine(1, 2)

\* the characters of the current line once the i-th word is appended, every
\* word counted with the space appended after it, and whether the line is to
\* be flushed after the i-th word
RECURSIVE LineChars(_), FlushAfter(_)
LineChars(i) ==
    (IF i = 1 \/ FlushAfter(i - 1) \/ LongSilence(i) THEN 0 ELSE LineChars(i - 1))
        + parse.allWords[i].len + 1
FlushAfter(i) ==
    \/ parse.allWords[i].ending = "."
    \/ parse.allWords[i].ending = "," /\ LineChars(i) > 100
    \/ LineChars(i) > 150
    \/ i = Len(parse.allWords)

\* a line of run r ends with the i-th word
ClosesLine(r, i) ==
    \E l \in DOMAIN LinesOf(r) : LinesOf(r)[l].words[Len(LinesOf(r)[l].words)] = i

\* C25: the current line is flushed right after a word exactly when the word
\* ends with '.', '!' or '?', or ends with a comma while the line is longer
\* than 100 characters, or the line is longer than 150 characters, or the word
\* is the last one; a line ends at a word only then or by silence before the
\* next word.
C25_FlushAfterWord ==
    \A r \in DOMAIN parse.runs :
        \A i \in DOMAIN parse.allWords :
            /\ parse.runs[r].trace[i].flushed <=> FlushAfter(i)
            /\ FlushAfter(i) => ClosesLine(r, i)
            /\ ClosesLine(r, i) =>
                   FlushAfter(i) \/ (i < Len(parse.allWords) /\ LongSilence(i + 1))

\* a line of 101 characters was flushed after a comma at its first word, and
\* the second word made a line of its own
C25_Witness ==
    /\ Len(parse.runs) >= 1
    /\ Len(parse.allWords) = 2
    /\ parse.allWords[1].ending = "," /\ parse.allWords[1].len = 100
    /\ ~LongSilence(2)
    /\ parse.runs[1].trace[1].flushed
    /\ Len(LinesOf(1)) = 2

\* the calls of transcribePart that have started and not ended, those that
\* sleep before their first request or between two submissions included
InFlight ==
    {k \in Segs : seg[k].pc \in {"stagger", "lookup", "upload", "submit", "backoff",
                                 "await", "download", "deleting"}}

\* C26: at most 4 calls of a job are in flight at any time.
C26_AtMostBatchSizeInFlight == Cardinality(InFlight) <= 4

\* four calls are in flight at once, each past its stagger delay, while
\* a fifth segment waits for the next batch
C26_Witness ==
    /\ nFiles > 4
    /\ Cardinality(InFlight) = 4
    /\ \A k \in InFlight : seg[k].pc \notin {"stagger", "backoff"}
    /\ \E k \in InFlight : seg[k].retries > 0

\* the session of media message m is held by a map
Held(m) ==
    \E c \in Chats : pendingRequests[c].media = m \/ waitingForTimecodes[c].media = m

\* a step of the sweep, of a click on a button, or of a media message
Outsider ==
    \/ Sweep
    \/ \E m \in Media, data \in {"cancel"} \cup Langs : CallbackQuery(m, data)
    \/ \E m \in Media, c \in Chats : HandleMediaMessage(m, c)

\* C27: while the job of a dispatched media message runs, no map holds its
\* session; a sweep, a click (cancel or language) or a media message of the
\* same chat leaves the job running and its audio file on disk; and a session
\* that a cancel click or the sweep removes was never dispatched.
C27_DispatchedJobUntouched ==
    /\ [](\A m \in Media : media[m].exec = "running" => ~Held(m))
    /\ [][Outsider =>
             \A m \in Media :
                 media[m].exec = "running" =>
                     /\ media'[m].exec = "running"
                     /\ AudioFile(m) \in files => AudioFile(m) \in files']_vars
    /\ [][\A m \in Media :
             (Held(m) /\ ~Held(m)' /\ media' = media) => media[m].exec = "none"]_vars

\* while the first job runs with its audio file on disk, a second media
\* message arrived in the same chat and its prompt was cancelled by a click
C27_Witness ==
    /\ media[1].exec = "running"
    /\ AudioFile(1) \in files
    /\ media[2].chat = media[1].chat
    /\ media[2].pc = "prompted"
    /\ clicks = 1
    /\ expired = {}
    /\ ~Held(2)

\* the flows the chat's timecode session was ever made for: the entry in the
\* map, and those the sweep or an accepted message took out of it
HadSession(m) ==
    \/ \E c \in Chats : waitingForTimecodes[c].media = m
    \/ <<"waiting", m>> \in expired
    \/ ~media[m].points.null

\* C28: an entry enters waitingForTimecodes only in the step in which
\* getDuration of its flow resolves, with the source and the converted audio
\* on disk and a duration above MAX_SEGMENT_DURATION_SEC (1140), and it stores
\* that duration; a flow that measured at most 1140 starts executeTranscription
\* in that step with splitPoints null, and never has a timecode session.
C28_SessionOnlyForLongFile ==
    /\ [][\A c \in Chats :
             LET entry == waitingForTimecodes'[c]
                 m == entry.media
             IN  (entry # NoEntry /\ entry.age = 0 /\ entry # waitingForTimecodes[c]) =>
                     /\ media[m].pc = "measure"
                     /\ media[m].chat = c
                     /\ {SourceFile(m), AudioFile(m)} \subseteq files
                     /\ media'[m].duration > MAX_SEGMENT_DURATION_SEC
                     /\ entry.duration = media'[m].duration
                     /\ media'[m].exec = "none"]_vars
    /\ [][\A m \in Media :
             (media[m].pc = "measure" /\ media'[m].duration # Unmeasured
                 /\ media'[m].duration <= MAX_SEGMENT_DURATION_SEC) =>
                     /\ media'[m].exec = "running"
                     /\ media'[m].points = NullPoints
                     /\ waitingForTimecodes' = waitingForTimecodes]_vars
    /\ [](\A m \in Media :
             (media[m].duration # Unmeasured
                 /\ media[m].duration <= MAX_SEGMENT_DURATION_SEC) => ~HadSession(m))
    /\ [](\A m \in Media : HadSession(m) => media[m].duration > MAX_SEGMENT_DURATION_SEC)

\* getDuration of a flow resolved with 1141: the session of the chat is made for
\* it with that duration, both files on disk, and nothing was dispatched
C28_Witness ==
    /\ media[1].pc = "notify" /\ media[1].duration = MAX_SEGMENT_DURATION_SEC + 1
    /\ media[1].exec = "none"
    /\ waitingForTimecodes[FirstChat] =
           TimecodeState(1, media[1].lang, MAX_SEGMENT_DURATION_SEC + 1)
    /\ {SourceFile(1), AudioFile(1)} \subseteq files

\* processFile ended after the splitter had produced the files of a split job
SplitJobEnded == isSplit /\ nFiles > 0 /\ jobPc \in {"returned", "rejected"}

\* C29 (as claimed): when processFile of a split job ends, by return or by a
\* failure thrown while the segments are processed, no part file is left.
C29_NoPartFileAfterJob == SplitJobEnded => partFiles = 0

\* the flow of media message m has left by one of its exits: an await of
\* prepareFileForProcessing rejected before the duration was known, its
\* executeTranscription ended, or the sweep expired its timecode session
Exited(m) ==
    \/ media[m].pc = "ended" /\ media[m].duration = Unmeasured
    \/ media[m].exec = "ended"
    \/ <<"waiting", m>> \in expired

\* C30 (as claimed): a flow that has left by a failure while preparing, by the
\* end of its transcription job (completed or failed), or by the expiry of its
\* timecode session has neither its converted audio nor its source on disk.
C30_BothFilesDeletedOnExit ==
    \A m \in Media : Exited(m) => AudioFile(m) \notin files /\ SourceFile(m) \notin files

\* a delete of the call of segment k failed: a blob it asked to delete is
\* still in the bucket after Promise.allSettled resolved
DeleteFailed(k) ==
    seg[k].pc # "deleting" /\ seg[k].delIssued \cap seg[k].blobs # {}

\* C31: a segment one of whose blob deletes failed ends as a transcribed
\* segment: its call resolves with its transcript lines, never with a
\* placeholder and never by rejecting, and when processFile returns the lines
\* are in the transcript.
C31_DeleteFailureNotPropagated ==
    \A k \in Segs :
        DeleteFailed(k) =>
            /\ seg[k].pc = "done" /\ seg[k].cause = "none"
            /\ \E n \in LineCounts : seg[k].result = FormattedTranscript(k, n, TimeOffset(k))
            /\ jobPc = "returned" =>
                  \A p \in DOMAIN seg[k].result :
                      \E q \in DOMAIN fullTranscript : fullTranscript[q] = seg[k].result[p]

\* processFile has returned; both deletes of a segment failed and its line is
\* in the transcript
C31_Witness ==
    /\ jobPc = "returned"
    /\ \E k \in Segs :
          /\ seg[k].pc = "done" /\ seg[k].blobs = {"audio", "result"}
          /\ seg[k].delIssued = {"audio", "result"}
          /\ seg[k].result # <<>>
          /\ \E q \in DOMAIN fullTranscript :
                fullTranscript[q].kind = "line" /\ fullTranscript[q].seg = k

\* the calls of transcribePart that are uploading, as flow and index of the file
Uploading == {<<m, i>> \in KeyFlows \X (1 .. 2) : i \in keys.flow[m].calls}

\* C32 (as claimed): no two calls that are in flight at the same time, of one
\* job or of two jobs, upload to the same key.
C32_UploadKeysDistinct ==
    \A a, b \in Uploading :
        a # b => UploadKey(keys.flow[a[1]].filesToProcess[a[2]])
                     # UploadKey(keys.flow[b[1]].filesToProcess[b[2]])

\* the steps of transcribePart in the order of its code: the retry loop
\* (submit, backoff) is one step
Stage(pc) ==
    CASE pc \in {"idle", "stagger", "lookup"} -> 0
      [] pc = "upload" -> 1
      [] pc \in {"submit", "backoff"} -> 2
      [] pc = "await" -> 3
      [] pc = "download" -> 4
      [] pc = "deleting" -> 5
      [] OTHER -> 6

\* C33: a segment is uploaded once, before its first submission, and no retry
\* uploads again: a retry goes from the backoff to the submission only; the
\* await of the operation is entered only from a submission that succeeded,
\* the download only from that await, the parse only from that download, and
\* the call never goes back to a step it has left.
C33_RetryRepeatsOnlySubmission ==
    /\ [](\A k \in Segs :
             /\ seg[k].uploads <= 1
             /\ seg[k].submits > 0 => seg[k].uploads = 1
             /\ seg[k].pc \in {"await", "download", "deleting", "done"} =>
                   seg[k].uploads = 1 /\ seg[k].submits = seg[k].retries + 1)
    /\ [][\A k \in Segs :
             /\ Stage(seg[k].pc) > 0 => Stage(seg'[k].pc) >= Stage(seg[k].pc)
             /\ seg[k].pc = "backoff" =>
                   seg'[k].pc \in {"backoff", "submit"} /\ seg'[k].uploads = seg[k].uploads
             /\ (seg[k].pc # "await" /\ seg'[k].pc = "await") => seg[k].pc = "submit"
             /\ (seg[k].pc # "download" /\ seg'[k].pc = "download") => seg[k].pc = "await"
             /\ (seg[k].pc # "deleting" /\ seg'[k].pc = "deleting") =>
                   seg[k].pc = "download"]_vars

\* a segment was transcribed at its sixth submission, after five quota
\* errors, with one upload
C33_Witness ==
    \E k \in Segs :
        /\ seg[k].pc = "done" /\ seg[k].result # <<>>
        /\ seg[k].submits = MAX_RETRIES + 1 /\ seg[k].retries = MAX_RETRIES
        /\ seg[k].uploads = 1

\* the callback of segment k has passed its stagger delay and called
\* transcribePart
Started(k) == seg[k].pc \notin {"idle", "stagger"}

\* C34: in every batch the calls start in index order, the call at position
\* index of the batch not before the one at position index - 1, and the
\* callback at position index sleeps index * 2000 ms from the start of the
\* batch before its call.
C34_StaggeredStartInOrder ==
    \A k \in Segs :
        /\ seg[k].pc # "idle" => seg[k].delay = (k % BATCH_SIZE) * STAGGER_MS
        /\ (Started(k) /\ k % BATCH_SIZE > 0) => Started(k - 1)

\* the calls at positions 0 and 1 of a batch have started, the callback at
\* position 2 is still in its delay of 4000 ms
C34_Witness ==
    /\ Started(0) /\ Started(1)
    /\ seg[2].pc = "stagger" /\ seg[2].delay = 2 * STAGGER_MS
    /\ seg[1].delay = STAGGER_MS

\* a line without its last word
Front(line) == SubSeq(line, 1, Len(line) - 1)

\* C35: every emitted line, taken without its last word, is at most 150
\* characters long, the space after each word counted.
C35_LineCapped ==
    \A r \in DOMAIN parse.runs :
        \A l \in DOMAIN LinesOf(r) :
            Length(parse.allWords, Front(LinesOf(r)[l].words)) <= 150

\* a word of 149 characters and the space after it fill the cap exactly, the
\* line went on and was emitted with its second word
C35_Witness ==
    /\ Len(parse.runs) > 0
    /\ \E l \in DOMAIN LinesOf(1) :
          /\ Len(LinesOf(1)[l].words) = 2
          /\ Length(parse.allWords, Front(LinesOf(1)[l].words)) = 150
          /\ Length(parse.allWords, LinesOf(1)[l].words) > 150

\* the words of the lines of run r read in order, up to line l
RECURSIVE WordsRead(_, _)
WordsRead(r, l) ==
    IF l = 0 THEN <<>> ELSE WordsRead(r, l - 1) \o LinesOf(r)[l].words

\* C36: the lines of a parsed response hold every word of it exactly once and
\* in the order of the response, and every line holds a word.
C36_WordsKept ==
    \A r \in DOMAIN parse.runs :
        /\ WordsRead(r, Len(LinesOf(r))) = [i \in 1 .. Len(parse.allWords) |-> i]
        /\ \A l \in DOMAIN LinesOf(r) : LinesOf(r)[l].words # <<>>

\* a response of two words was cut by silence into two lines of one word
C36_Witness ==
    /\ Len(parse.runs) > 0
    /\ Len(LinesOf(1)) = 2
    /\ parse.runs[1].trace[2].shouldSplitBySilence
    /\ LinesOf(1)[1].words = <<1>> /\ LinesOf(1)[2].words = <<2>>

\* C37: for every media message prepareFileForProcessing is called at most
\* once and executeTranscription at most once, however often the buttons of
\* its prompt are clicked and valid timecodes are sent; a click that starts
\* the preparation has removed the request, and an accepted message has
\* removed the timecode entry, in the same step.
C37_OneJobPerSession ==
    /\ [](\A m \in Media : media[m].starts <= 1 /\ media[m].jobs <= 1)
    /\ [][\A m \in Media :
             /\ media'[m].starts > media[m].starts =>
                   /\ pendingRequests[media[m].chat].media = m
                   /\ pendingRequests'[media[m].chat] = NoEntry
             /\ (media'[m].jobs > media[m].jobs /\ ~media'[m].points.null) =>
                   /\ waitingForTimecodes[media[m].chat].media = m
                   /\ waitingForTimecodes'[media[m].chat] = NoEntry]_vars

\* the second media message of the chat was started by a click and dispatched
\* by accepted timecodes, once each, while the job of the first runs
C37_Witness ==
    /\ media[1].starts = 1 /\ media[1].jobs = 1 /\ media[1].exec = "running"
    /\ media[2].starts = 1 /\ media[2].jobs = 1 /\ ~media[2].points.null
    /\ media[2].exec = "running"

\* C38 (as claimed): a click on the prompt of a media message starts the
\* processing of that message and of no other, and a cancel click on it
\* discards no request but its own.
C38_ClickActsOnItsOwnMedia ==
    [][\A m \in Media :
          (\E data \in {"cancel"} \cup Langs : CallbackQuery(m, data)) =>
              \A j \in Media \ {m} :
                  /\ media'[j].starts = media[j].starts
                  /\ \A c \in Chats :
                        pendingRequests[c].media = j => pendingRequests'[c].media = j]_vars

\* the seconds the validation loop read from the lines of a message
Checked(timecodes) == [i \in DOMAIN timecodes |-> parseTimecode(timecodes[i]).seconds]

\* C39: the split points a job was started with are the lines of the accepted
\* message, in their order; parseSeconds reads from each of them the seconds
\* parseTimecode read when the line was validated, so the offsets processFile
\* makes of the list are 0 followed by the validated seconds.
C39_OffsetsAreTheValidatedSeconds ==
    \A m \in Media :
        ~media[m].points.null =>
            LET list == media[m].points.list
            IN  /\ (inbox.at = "handled" /\ inbox.reply.error = "ok") =>
                      list = inbox.timecodes
                /\ \A i \in DOMAIN list :
                      /\ ~parseTimecode(list[i]).null
                      /\ parseSeconds(list[i]) = Checked(list)[i]
                /\ CustomOffsets(list) =
                      [k \in 0 .. Len(list) |-> IF k = 0 THEN 0 ELSE Checked(list)[k]]

\* a message of two lines, 00:10:00 and 00:19:00, was accepted for a file of
\* 2280 s and the job runs with these two split points
C39_Witness ==
    /\ media[1].exec = "running"
    /\ media[1].points = SplitPoints(<<Line(600), Line(MAX_SEGMENT_DURATION_SEC)>>)
    /\ inbox.at = "handled" /\ inbox.reply.error = "ok"
    /\ CustomOffsets(media[1].points.list) =
           (0 :> 0 @@ 1 :> 600 @@ 2 :> MAX_SEGMENT_DURATION_SEC)

\* processFile has returned its transcript or has thrown
JobOver == jobPc \in {"returned", "rejected"}

\* C40: when every remote call and every timer eventually settles, a job that
\* was started is eventually over, returned or thrown, whatever quota errors
\* the submissions meet; every batch that was launched is eventually left
\* behind; every call of a segment that started eventually ends; and no
\* segment is submitted more than MAX_RETRIES + 1 times.
C40_JobTerminates ==
    /\ (jobPc # "idle") ~> JobOver
    /\ \A i \in Segs : (jobPc = "batch" /\ batchI = i) ~> (jobPc # "batch" \/ batchI # i)
    /\ \A k \in Segs : (seg[k].pc # "idle") ~> Ended(k)
    /\ [](\A k \in Segs : seg[k].submits <= MAX_RETRIES + 1)

\* processFile has returned although every one of the six submissions of its
\* segment met a quota error
C40_Witness ==
    /\ jobPc = "returned"
    /\ \E k \in Segs :
          /\ seg[k].cause = "quota" /\ seg[k].submits = MAX_RETRIES + 1
          /\ seg[k].pc = "failed"

====
